---- MODULE Spec2Model ----
(***************************************************************************)
(* A model of scraper.py: the job-card scanner.  Strings are sequences of  *)
(* one-character strings, instants are integers counting milliseconds,     *)
(* a page is the sequence of the DOM nodes the extractors look at.         *)
(***************************************************************************)
EXTENDS Integers, Sequences, FiniteSets, TLC

VARIABLES
    pc,          \* position of run(): "scan", "fetch", "parse", "notify", "done", "crashed"
    cfg,         \* the loaded configuration (orgs, keywords, recency_days, allow_undated)
    idx,         \* index in cfg.orgs of the organization run() is at
    attempt,     \* number of fetch attempts made for the current organization
    now,         \* the wall clock, datetime.utcnow(), in milliseconds
    all_results, \* run(): all_results
    errors,      \* run(): errors
    log,         \* history: one entry per scan_org call that ended
    sent,        \* whether send_email_smtp was called
    sin,         \* input of a single scan_org body evaluation (SpecScan)
    sout,        \* its result
    doc,         \* input of extract_job_cards_generic (SpecExtract)
    cards        \* its result

vars == <<pc, cfg, idx, attempt, now, all_results, errors, log, sent, sin, sout, doc, cards>>
runVars == <<pc, cfg, idx, attempt, now, all_results, errors, log, sent>>
scanVars == <<sin, sout>>
extractVars == <<doc, cards>>

\* Python's None for an optional value is the empty sequence, a present value x is <<x>>
None == <<>>
Some(x) == <<x>>
Truthy(o) == o # None

Min(a, b) == IF a < b THEN a ELSE b
Max(a, b) == IF a > b THEN a ELSE b

RECURSIVE Pow2(_)
Pow2(n) == IF n <= 0 THEN 1 ELSE 2 * Pow2(n - 1)

----------------------------------------------------------------------------
(* Strings *)

\* str.lower() on the characters the model uses
LowerChar(c) ==
    CASE c = "A" -> "a"
      [] c = "B" -> "b"
      [] c = "K" -> "k"
      [] OTHER -> c

Lower(s) == [i \in 1..Len(s) |-> LowerChar(s[i])]

\* Python's  k in s  on strings
IsSubstr(k, s) ==
    \E i \in 0..(Len(s) - Len(k)) : SubSeq(s, i + 1, i + Len(k)) = k

\* s[:n]
Take(s, n) == SubSeq(s, 1, Min(n, Len(s)))

\* len(s.split())
WordCount(s) ==
    Cardinality({i \in 1..Len(s) : s[i] # " " /\ (i = 1 \/ s[i - 1] = " ")})

\* re.sub(r"\s+", " ", (t or "").strip())
CleanText(t) ==
    LET keep(i) == \/ t[i] # " "
                   \/ /\ i > 1
                      /\ t[i - 1] # " "
                      /\ \E j \in (i + 1)..Len(t) : t[j] # " "
        F[i \in 0..Len(t)] ==
            IF i = 0 THEN <<>>
            ELSE IF keep(i) THEN Append(F[i - 1], t[i]) ELSE F[i - 1]
    IN F[Len(t)]

\* contains_keyword is not called by scan_org; the filter of scan_org is MatchedKw below

----------------------------------------------------------------------------
(* Dates.  A datetime is [t: instant in ms, aware: has a tzinfo]. *)

Day == 86400000

\* datetime.isoformat(): the offset is written only for an aware datetime
IsoFormat(dt) == [iso |-> dt.t, offset |-> dt.aware]

\* dateutil.parser.parse on an ISO string
DateParse(iso) == [t |-> iso.iso, aware |-> iso.offset]

\* datetime.date()
DateOf(dt) == dt.t \div Day

\* posted_dt < cutoff, cutoff being naive (datetime.utcnow() - timedelta):
\* comparing an aware datetime with a naive one raises TypeError
CompareRaises(posted_dt) == posted_dt.aware

----------------------------------------------------------------------------
(* Pages.  A page (the soup) is the sequence, in document order, of its    *)
(* nodes: <article>, <div>, <li> elements and bare <a> anchors, siblings   *)
(* of each other.  A node is a record                                      *)
(*   tag      "article", "div", "li" or "a"                                *)
(*   cls      its class attribute matches the job vocabulary               *)
(*   text     get_text(" ", strip=True)                                    *)
(*   head     None, or <<t>>: the text of its first h1/h2/h3/strong/span,  *)
(*            when that comes before its first anchor                      *)
(*   anchors  its <a> elements in document order, each [text, href] with   *)
(*            href None or <<[id, job, jobs, bad]>>                        *)
(*   time     None, or <<dt>>: what parse_date makes of its <time> tag     *)
(*   datetext None, or <<dt>>: what parse_date makes of its "posted ..."   *)
(*   closing  the same for "closing date ..."                              *)
(*   loc      None, or <<t>>: its location text                            *)
(*   ser      str(node)                                                    *)
(***************************************************************************)

\* urllib's urljoin raises ValueError on a malformed href (an unclosed "[" in the host)
UrlJoinRaises(href) == href.bad
UrlJoin(base, href) == [base |-> base, href |-> href.id]

KeyLen == 200

\* key = str(c)[:200]
CardKey(c) == Take(c.ser, KeyLen)

\* if 5 < len(text.split()) < 60
LiLooksLikeJob(n) == 5 < WordCount(n.text) /\ WordCount(n.text) < 60

\* the three heuristics, in the order the cards are appended
Collected(soup) ==
    SelectSeq(soup, LAMBDA n : n.tag = "article")
    \o SelectSeq(soup, LAMBDA n : n.tag = "div" /\ n.cls)
    \o SelectSeq(soup, LAMBDA n : n.tag = "li" /\ n.anchors # <<>> /\ LiLooksLikeJob(n))

\* the loop  for c in cards: if key not in seen: seen.add(key); unique.append(c)
DedupeLastWins(cs) ==
    LET F[i \in 0..Len(cs)] ==
            IF i = 0 THEN <<>>
            ELSE IF \E j \in (Len(cs) - i + 2)..Len(cs) :
                        CardKey(cs[j]) = CardKey(cs[Len(cs) - i + 1])
                 THEN F[i - 1]
                 ELSE <<cs[Len(cs) - i + 1]>> \o F[i - 1]
    IN F[Len(cs)]

Dedupe(cs) ==
    LET F[i \in 0..Len(cs)] ==
            IF i = 0 THEN [unique |-> <<>>, seen |-> {}]
            ELSE LET key == CardKey(cs[i])
                 IN IF key \notin F[i - 1].seen
                    THEN [unique |-> Append(F[i - 1].unique, cs[i]),
                          seen |-> F[i - 1].seen \cup {key}]
                    ELSE F[i - 1]
    IN F[Len(cs)].unique

extract_job_cards_generic(soup) == Dedupe(Collected(soup))

\* soup.find_all("a"), in document order
RECURSIVE AllAnchors(_)
AllAnchors(soup) ==
    IF soup = <<>> THEN <<>> ELSE Head(soup).anchors \o AllAnchors(Tail(soup))

\* A function that may raise returns [raised, value].
Raise == [raised |-> TRUE, value |-> <<>>]
Return(v) == [raised |-> FALSE, value |-> v]

\* parse_workday: anchors with an href holding "/job/" or "wd3.myworkdaysite"
WorkdayPicks(a) == Truthy(a.href) /\ a.href[1].job

\* parse_icims: anchors with an href holding "icims.com" or "/jobs/" and a short title
IcimsPicks(a) ==
    /\ Truthy(a.href) /\ a.href[1].jobs
    /\ WordCount(a.text) < 12 /\ Len(a.text) > 3

\* items.append({"title": clean_text(title), "url": urljoin("https://", href)})
AdapterItems(as) ==
    IF \E i \in 1..Len(as) : UrlJoinRaises(as[i].href[1])
    THEN Raise
    ELSE Return([i \in 1..Len(as) |->
            [title |-> CleanText(as[i].text),
             url |-> Some(UrlJoin("https://", as[i].href[1]))]])

parse_workday(soup) == AdapterItems(SelectSeq(AllAnchors(soup), WorkdayPicks))
parse_icims(soup) == AdapterItems(SelectSeq(AllAnchors(soup), IcimsPicks))

\* candidates = [{"title": c["title"], "url": c["url"], "location": None, ...}]
Normalize(items) ==
    [i \in 1..Len(items) |->
        [title |-> items[i].title, url |-> items[i].url, location |-> None,
         posted |-> None, closing |-> None, snippet |-> <<>>]]

TitleFallbackLen == 100
SnippetLen == 400

\* the href parse_job_card_element resolves: the title tag's when that is an
\* anchor with an href, else the first anchor with an href
CardHref(el) ==
    LET withHref == SelectSeq(el.anchors, LAMBDA a : Truthy(a.href))
    IN IF withHref = <<>> THEN None ELSE withHref[1].href

CardTitleText(el) ==
    IF Truthy(el.head) THEN el.head[1]
    ELSE IF el.anchors # <<>> THEN el.anchors[1].text
    ELSE <<>>

\* the time tag first, then the "posted ..." text overrides it when it parses
CardPosted(el) == IF Truthy(el.datetext) THEN el.datetext ELSE el.time

parse_job_card_element(el, base_url) ==
    LET title == CleanText(CardTitleText(el))
        href == CardHref(el)
    IN IF Truthy(href) /\ UrlJoinRaises(href[1])
       THEN Raise
       ELSE Return(
            [title |-> IF title # <<>> THEN title
                       ELSE CleanText(Take(el.text, TitleFallbackLen)),
             url |-> IF Truthy(href) THEN Some(UrlJoin(base_url, href[1])) ELSE None,
             location |-> el.loc,
             posted |-> IF Truthy(CardPosted(el))
                        THEN Some(IsoFormat(CardPosted(el)[1])) ELSE None,
             closing |-> IF Truthy(el.closing)
                         THEN Some(IsoFormat(el.closing[1])) ELSE None,
             snippet |-> Take(CleanText(el.text), SnippetLen)])

----------------------------------------------------------------------------
(* scan_org after the fetch *)

Workday == <<"w", "o", "r", "k", "d", "a", "y">>
MyWorkday == <<"m", "y">> \o Workday
Icims == <<"i", "c", "i", "m", "s">>

\* requests.utils.urlparse(url).netloc.lower()
Domain(url) == Lower(url.host)

IsWorkdayDomain(domain) == IsSubstr(MyWorkday, domain) \/ IsSubstr(Workday, domain)
IsIcimsDomain(domain) == IsSubstr(Icims, domain)

\* the dispatch on the domain, lines 188-201
Candidates(soup, url) ==
    LET domain == Domain(url)
    IN IF IsWorkdayDomain(domain) THEN
            LET r == parse_workday(soup)
            IN IF r.raised THEN Raise ELSE Return(Normalize(r.value))
       ELSE IF IsIcimsDomain(domain) THEN
            LET r == parse_icims(soup)
            IN IF r.raised THEN Raise ELSE Return(Normalize(r.value))
       ELSE LET els == extract_job_cards_generic(soup)
                ps == [i \in 1..Len(els) |-> parse_job_card_element(els[i], url)]
            IN IF \E i \in 1..Len(els) : ps[i].raised THEN Raise
               ELSE Return([i \in 1..Len(els) |-> ps[i].value])

\* combined = f"{title} {snippet}".lower()
CombinedPlain(c) == Lower(c.title \o c.snippet)
Combined(c) == Lower(c.title \o <<" ">> \o c.snippet)

\* matched_kw = [kw for kw in keywords if kw.lower() in combined]
MatchedKw(c, keywords) ==
    SelectSeq(keywords, LAMBDA kw : IsSubstr(Lower(kw), Combined(c)))

NoteEmpty == <<>>
NoteUndated == <<"no posted date (included for review)">>
NotePosted(posted_dt) == <<"posted ", DateOf(posted_dt)>>

\* cutoff = datetime.utcnow() - timedelta(days=recency_days)
Cutoff(utcnow, recency_days) == utcnow - recency_days * Day

\* posted_dt < cutoff
Before(posted_dt, cutoff) == posted_dt.t < cutoff

\* lines 213-233: the recency decision for one keyword-relevant candidate
RecencyIgnoresFlag(c, cutoff, allow_undated) ==
    IF Truthy(c.posted)
    THEN LET posted_dt == DateParse(c.posted[1])
         IN IF CompareRaises(posted_dt)
            THEN [include |-> allow_undated, note |-> NoteEmpty]
            ELSE IF Before(posted_dt, cutoff)
                 THEN [include |-> FALSE, note |-> NoteEmpty]
                 ELSE [include |-> TRUE, note |-> NotePosted(posted_dt)]
    ELSE [include |-> TRUE, note |-> NoteUndated]

Recency(c, cutoff, allow_undated) ==
    IF Truthy(c.posted)
    THEN LET posted_dt == DateParse(c.posted[1])
         IN IF CompareRaises(posted_dt)
            THEN [include |-> allow_undated, note |-> NoteEmpty]
            ELSE IF Before(posted_dt, cutoff)
                 THEN [include |-> FALSE, note |-> NoteEmpty]
                 ELSE [include |-> TRUE, note |-> NotePosted(posted_dt)]
    ELSE IF allow_undated
         THEN [include |-> TRUE, note |-> NoteUndated]
         ELSE [include |-> FALSE, note |-> NoteEmpty]

\* whether the loop of lines 205-245 appends a record for candidate c
Included(c, keywords, cutoff, allow_undated) ==
    MatchedKw(c, keywords) # <<>> /\ Recency(c, cutoff, allow_undated).include

MatchRecord(org, c, note) ==
    [org |-> org.name, org_url |-> org.url, title |-> c.title, url |-> c.url,
     location |-> c.location, posted |-> c.posted, closing |-> c.closing,
     recency_note |-> note]

\* lines 204-246
Classify(org, candidates, keywords, utcnow, recency_days, allow_undated) ==
    LET cutoff == Cutoff(utcnow, recency_days)
        F[i \in 0..Len(candidates)] ==
            IF i = 0 THEN <<>>
            ELSE IF Included(candidates[i], keywords, cutoff, allow_undated)
                 THEN Append(F[i - 1],
                             MatchRecord(org, candidates[i],
                                 Recency(candidates[i], cutoff, allow_undated).note))
                 ELSE F[i - 1]
    IN F[Len(candidates)]

\* scan_org from line 185 on: the soup is parsed, the clock reads utcnow
ScanBody(org, soup, keywords, utcnow, recency_days, allow_undated) ==
    LET cs == Candidates(soup, org.url)
    IN IF cs.raised THEN Raise
       ELSE Return(Classify(org, cs.value, keywords, utcnow, recency_days, allow_undated))

\* the except branch of scan_org, line 183
ErrorRecord(org, e) == [org |-> org.name, error |-> e, url |-> org.url]

IsErrorRecord(r) == "error" \in DOMAIN r
IsMatchRecord(r) == "recency_note" \in DOMAIN r

----------------------------------------------------------------------------
(* The inputs the specifications draw from *)

MaxPage == 2
MaxDoc == 3
MaxRecency == 1
MaxOrgs == 2

StartInstant == 20 * Day

Naive(t) == Some([t |-> t, aware |-> FALSE])
Aware(t) == Some([t |-> t, aware |-> TRUE])

Href(id) == Some([id |-> id, job |-> FALSE, jobs |-> FALSE, bad |-> FALSE])
JobHref(id) == Some([id |-> id, job |-> TRUE, jobs |-> FALSE, bad |-> FALSE])
JobsHref(id) == Some([id |-> id, job |-> FALSE, jobs |-> TRUE, bad |-> FALSE])
BadHref(id) == Some([id |-> id, job |-> TRUE, jobs |-> TRUE, bad |-> TRUE])

Link(text, href) == [text |-> text, href |-> href]

Node(tag, cls, head, text, anchors, time, ser) ==
    [tag |-> tag, cls |-> cls, head |-> head, text |-> text, anchors |-> anchors,
     time |-> time, datetext |-> None, closing |-> None, loc |-> None, ser |-> ser]

\* n words "w" joined by single spaces
Words(n) == [i \in 1..(2 * n - 1) |-> IF i % 2 = 1 THEN "w" ELSE " "]
Rep(c, n) == [i \in 1..n |-> c]

TAbDev == <<"A", "b", " ", "d", "e", "v">>
TabOps == <<"a", "b", " ", " ", "o", "p", "s">>
TKa == <<"k", "a">>
TKaB == <<"k", "a", " ", "b">>
TBA == <<"b", " ", "a">>
TZz == <<"z", "z">>
TSix == <<"a", "b", " ">> \o Words(5)

KwAb == <<"a", "b">>
KwAB == <<"A", "B">>
KwAk == <<"a", "k">>
KwASpB == <<"a", " ", "b">>
KwQq == <<"q", "q">>
KwSSp == <<"s", " ">>

KeywordChoices == {<<>>, <<KwAb>>, <<KwQq, KwAB>>, <<KwAk>>, <<KwASpB>>, <<KwSSp>>}

\* the nodes of the pages scan_org is given
ScanNodes ==
    { Node("article", FALSE, Some(TAbDev), TAbDev, <<Link(TAbDev, JobHref("h1"))>>,
           Naive(StartInstant - 1), <<"1">>),
      Node("article", FALSE, Some(TAbDev), TAbDev, <<>>,
           Naive(StartInstant - Day), <<"2">>),
      Node("div", TRUE, None, TabOps, <<Link(TabOps, JobsHref("h3"))>>,
           Naive(StartInstant - Day - 1), <<"3">>),
      Node("div", TRUE, Some(TAbDev), TAbDev, <<>>,
           Aware(StartInstant - 5 * Day), <<"4">>),
      Node("article", TRUE, None, TabOps, <<>>,
           Aware(StartInstant - 1), <<"5">>),
      Node("li", FALSE, None, TSix, <<Link(TSix, JobHref("h6"))>>, None, <<"6">>),
      Node("article", FALSE, Some(TZz), TZz, <<Link(TZz, JobsHref("h7"))>>,
           Naive(StartInstant - 1), <<"7">>),
      Node("div", TRUE, Some(TKa), TKaB, <<Link(TKa, Href("h8"))>>, None, <<"8">>),
      Node("div", TRUE, None, TAbDev, <<Link(TAbDev, BadHref("h9"))>>, None, <<"9">>),
      Node("article", FALSE, Some(TBA), TBA, <<Link(TBA, JobHref("h12"))>>, None, <<"12">>) }

SeqsUpTo(S, n) == UNION {[1..m -> S] : m \in 0..n}

HostGeneric == <<"j", "o", "b", "s", ".", "o", "r", "g">>
HostWorkday == <<"x", ".", "M", "y">> \o Workday \o <<".", "c", "o", "m">>
HostIcims == <<"x", ".">> \o Icims \o <<".", "c", "o", "m">>

Url(host, path) == [host |-> host, path |-> path]
Org(name, url) == [name |-> name, url |-> url]

ScanOrgs ==
    { Org("Acme", Url(HostGeneric, "/careers")),
      Org("Wd", Url(HostWorkday, "/acme")),
      Org("Ic", Url(HostIcims, "/jobs")) }

----------------------------------------------------------------------------
(* SpecScan: scan_org's body (line 185 on) applied once to a drawn page *)

ScanIdle == [org |-> Org("", Url(<<>>, "")), soup |-> <<>>, keywords |-> <<>>,
             utcnow |-> 0, recency_days |-> 0, allow_undated |-> FALSE]
ScanPending == [done |-> FALSE, raised |-> FALSE, value |-> <<>>]

ExtractPending == [done |-> FALSE, value |-> <<>>]

RunIdle ==
    /\ pc = "idle" /\ cfg = <<>> /\ idx = 0 /\ attempt = 0 /\ now = 0
    /\ all_results = <<>> /\ errors = <<>> /\ log = <<>> /\ sent = FALSE

ScanInit ==
    /\ RunIdle
    /\ doc = <<>> /\ cards = ExtractPending
    /\ sin \in [org : ScanOrgs, soup : SeqsUpTo(ScanNodes, MaxPage),
                keywords : KeywordChoices, utcnow : {StartInstant},
                recency_days : 0..MaxRecency, allow_undated : BOOLEAN]
    /\ sout = ScanPending

ScanResult ==
    ScanBody(sin.org, sin.soup, sin.keywords, sin.utcnow, sin.recency_days,
             sin.allow_undated)

ScanReturns ==
    /\ ~sout.done /\ ~ScanResult.raised
    /\ sout' = [done |-> TRUE, raised |-> FALSE, value |-> ScanResult.value]
    /\ UNCHANGED <<sin, runVars, extractVars>>

ScanRaises ==
    /\ ~sout.done /\ ScanResult.raised
    /\ sout' = [done |-> TRUE, raised |-> TRUE, value |-> <<>>]
    /\ UNCHANGED <<sin, runVars, extractVars>>

ScanNext == ScanReturns \/ ScanRaises

SpecScan == ScanInit /\ [][ScanNext]_vars

----------------------------------------------------------------------------
(* SpecExtract: extract_job_cards_generic applied once to a drawn document *)

LongA == Rep("x", KeyLen)

ExtractNodes ==
    { Node("article", FALSE, None, TAbDev, <<>>, None, LongA \o <<"a">>),
      Node("article", TRUE, None, TZz, <<>>, None, LongA \o <<"b">>),
      Node("div", TRUE, None, TAbDev, <<>>, None, LongA \o <<"c">>),
      Node("div", TRUE, None, TZz, <<>>, None, Rep("x", KeyLen - 1) \o <<"d">>),
      Node("div", FALSE, None, TZz, <<>>, None, <<"e">>),
      Node("li", FALSE, None, TSix, <<Link(TSix, Href("h"))>>, None, <<"f">>),
      Node("li", FALSE, None, TSix, <<Link(TAbDev, Href("h"))>>, None,
           Rep("x", KeyLen - 1) \o <<"d", "g">>),
      Node("li", FALSE, None, TAbDev, <<Link(TAbDev, Href("h"))>>, None, <<"h">>),
      Node("li", FALSE, None, Words(60), <<Link(TAbDev, Href("h"))>>, None, <<"i">>),
      Node("li", FALSE, None, TSix, <<>>, None, <<"j">>) }

ExtractInit ==
    /\ RunIdle
    /\ sin = ScanIdle /\ sout = ScanPending
    /\ doc \in SeqsUpTo(ExtractNodes, MaxDoc)
    /\ cards = ExtractPending

Extract ==
    /\ ~cards.done
    /\ cards' = [done |-> TRUE, value |-> extract_job_cards_generic(doc)]
    /\ UNCHANGED <<doc, runVars, scanVars>>

SpecExtract == ExtractInit /\ [][Extract]_vars

----------------------------------------------------------------------------
(* Spec: run() over a configuration, the web answering each fetch attempt  *)

MaxAttempts == 3
PoliteSleep == 1200

\* stop=stop_after_attempt(3), asked after the attempt numbered n has raised
StopAfterFour(n) == n >= MaxAttempts + 1
StopAfterAttempt(n) == n >= MaxAttempts

\* wait=wait_exponential(multiplier=1, min=1, max=8), in milliseconds
BackoffWait(n) == 1000 * Max(1, Min(Pow2(n - 1), 8))

\* how long one requests.get may take (timeout=20 bounds it)
FetchDurations == {1000}

RunKeywordChoices == {<<KwQq, KwAb>>}
RunRecencyChoices == {1}

PageAcme ==
    << Node("article", FALSE, Some(TAbDev), TAbDev, <<Link(TAbDev, Href("a1"))>>,
            Naive(StartInstant - Day + 500), <<"1">>),
       Node("div", TRUE, None, TabOps, <<>>, Aware(StartInstant - 5 * Day), <<"2">>),
       Node("li", FALSE, None, TSix, <<Link(TSix, Href("a3"))>>, None, <<"3">>) >>

PageWd == << Node("a", FALSE, None, TabOps, <<Link(TabOps, JobHref("w1"))>>, None, <<"1">>),
             Node("a", FALSE, None, TZz, <<Link(TZz, JobHref("w2"))>>, None, <<"2">>) >>

PageBad == << Node("article", FALSE, Some(TAbDev), TAbDev, <<Link(TAbDev, Href("b1"))>>,
                   Naive(StartInstant), <<"1">>),
              Node("div", TRUE, None, TAbDev, <<Link(TAbDev, BadHref("b2"))>>, None, <<"2">>) >>

RunOrgs ==
    { Org("Acme", Url(HostGeneric, "/careers")),
      Org("Wd", Url(HostWorkday, "/acme")),
      Org("Bad", Url(HostGeneric, "/bad")) }

\* the page the web serves at a URL
Web(url) ==
    CASE url.path = "/careers" -> PageAcme
      [] url.path = "/acme" -> PageWd
      [] OTHER -> PageBad

\* the bodies a response with this status may carry: a server error may still
\* render the page, or an error page without cards
Bodies(url, status) == IF status = 200 THEN {Web(url)} ELSE {<<>>, Web(url)}

Statuses == {200, 503}

Init ==
    /\ sin = ScanIdle /\ sout = ScanPending
    /\ doc = <<>> /\ cards = ExtractPending
    /\ cfg \in [orgs : SeqsUpTo(RunOrgs, MaxOrgs), keywords : RunKeywordChoices,
                recency_days : RunRecencyChoices, allow_undated : BOOLEAN]
    /\ idx = 1
    /\ pc = IF cfg.orgs = <<>> THEN "notify" ELSE "fetch"
    /\ attempt = 0
    /\ now = StartInstant
    /\ all_results = <<>>
    /\ errors = <<>>
    /\ log = <<>>
    /\ sent = FALSE

CurrentOrg == cfg.orgs[idx]

\* the for loop of run() moves on to the next organization
NextOrg ==
    /\ idx' = idx + 1
    /\ attempt' = 0
    /\ pc' = IF idx + 1 > Len(cfg.orgs) THEN "notify" ELSE "fetch"

LogEntry(attempts, status, utcnow, outcome, ret, parses) ==
    [org |-> idx, attempts |-> attempts, status |-> status, utcnow |-> utcnow,
     outcome |-> outcome, ret |-> ret, parses |-> parses]

\* fetch(): an attempt raises and tenacity waits before the next one
FetchRetry ==
    /\ pc = "fetch"
    /\ ~StopAfterAttempt(attempt + 1)
    /\ attempt' = attempt + 1
    /\ \E d \in FetchDurations : now' = now + d + BackoffWait(attempt + 1)
    /\ UNCHANGED <<pc, cfg, idx, all_results, errors, log, sent, scanVars, extractVars>>

\* fetch(): the last attempt raises, tenacity raises RetryError; scan_org
\* returns the error record (line 183) and run() extends all_results with it
FetchGivesUp ==
    /\ pc = "fetch"
    /\ StopAfterAttempt(attempt + 1)
    /\ LET ret == <<ErrorRecord(CurrentOrg, "RetryError")>>
       IN /\ all_results' = all_results \o ret
          /\ log' = Append(log, LogEntry(attempt + 1, None, None, "fetch_error", ret, 0))
    /\ \E d \in FetchDurations : now' = now + d + PoliteSleep
    /\ NextOrg
    /\ UNCHANGED <<cfg, errors, sent, scanVars, extractVars>>

\* fetch() returns a response whose text BeautifulSoup rejects (line 181)
ScanSoupFails ==
    /\ pc = "fetch"
    /\ \E status \in Statuses :
        LET ret == <<ErrorRecord(CurrentOrg, "ParserError")>>
        IN /\ all_results' = all_results \o ret
           /\ log' = Append(log,
                  LogEntry(attempt + 1, Some(status), None, "soup_error", ret, 1))
    /\ \E d \in FetchDurations : now' = now + d + PoliteSleep
    /\ NextOrg
    /\ UNCHANGED <<cfg, errors, sent, scanVars, extractVars>>

\* fetch() returns a response, whatever its status; scan_org parses and
\* classifies it and run() extends all_results with what it returns
ScanOk ==
    /\ pc = "fetch"
    /\ \E d \in FetchDurations, status \in Statuses :
        \E soup \in Bodies(CurrentOrg.url, status) :
            LET r == ScanBody(CurrentOrg, soup, cfg.keywords, now + d,
                              cfg.recency_days, cfg.allow_undated)
            IN /\ ~r.raised
               /\ all_results' = all_results \o r.value
               /\ log' = Append(log,
                      LogEntry(attempt + 1, Some(status), Some(now + d), "ok", r.value, 1))
               /\ now' = now + d + PoliteSleep
    /\ NextOrg
    /\ UNCHANGED <<cfg, errors, sent, scanVars, extractVars>>

\* scan_org raises past its try block; run() records it in errors (line 296)
ScanThrows ==
    /\ pc = "fetch"
    /\ \E d \in FetchDurations, status \in Statuses :
        \E soup \in Bodies(CurrentOrg.url, status) :
            LET r == ScanBody(CurrentOrg, soup, cfg.keywords, now + d,
                              cfg.recency_days, cfg.allow_undated)
            IN /\ r.raised
               /\ errors' = Append(errors,
                      [org |-> CurrentOrg.name, url |-> CurrentOrg.url,
                       error |-> "ValueError"])
               /\ log' = Append(log,
                      LogEntry(attempt + 1, Some(status), None, "raised", <<>>, 1))
               /\ now' = now + d
    /\ NextOrg
    /\ UNCHANGED <<cfg, all_results, sent, scanVars, extractVars>>

\* make_html_email: r['title'] raises KeyError on a record without a title
make_html_email(results) ==
    IF results = <<>> THEN Return(<<"<p>No verified matches found.</p>">>)
    ELSE IF \E i \in 1..Len(results) : "title" \notin DOMAIN results[i]
    THEN Raise
    ELSE Return([i \in 1..Len(results) |->
            [org |-> results[i].org, title |-> results[i].title,
             location |-> results[i].location, posted |-> results[i].posted,
             notes |-> results[i].recency_note]])

\* line 304: no results, nothing is sent
NotifyNothing ==
    /\ pc = "notify"
    /\ all_results = <<>>
    /\ pc' = "done"
    /\ UNCHANGED <<cfg, idx, attempt, now, all_results, errors, log, sent,
                   scanVars, extractVars>>

\* lines 300-303: the email is built and sent
NotifySend ==
    /\ pc = "notify"
    /\ all_results # <<>>
    /\ ~make_html_email(all_results).raised
    /\ sent' = TRUE
    /\ pc' = "done"
    /\ UNCHANGED <<cfg, idx, attempt, now, all_results, errors, log, scanVars, extractVars>>

\* line 300: make_html_email raises, nothing catches it
NotifyKeyError ==
    /\ pc = "notify"
    /\ all_results # <<>>
    /\ make_html_email(all_results).raised
    /\ pc' = "KeyError"
    /\ UNCHANGED <<cfg, idx, attempt, now, all_results, errors, log, sent,
                   scanVars, extractVars>>

\* line 302: send_email_smtp raises (the SMTP server refuses), nothing catches it
NotifySmtpFails ==
    /\ pc = "notify"
    /\ all_results # <<>>
    /\ ~make_html_email(all_results).raised
    /\ pc' = "SMTPError"
    /\ UNCHANGED <<cfg, idx, attempt, now, all_results, errors, log, sent,
                   scanVars, extractVars>>

Next ==
    \/ FetchRetry
    \/ FetchGivesUp
    \/ ScanSoupFails
    \/ ScanOk
    \/ ScanThrows
    \/ NotifyNothing
    \/ NotifySend
    \/ NotifyKeyError
    \/ NotifySmtpFails

Spec == Init /\ [][Next]_vars

----------------------------------------------------------------------------
(* Properties of run() *)

\* C1: all_results holds match records only, never a fetch-error record, and
\* every fetch failure is recorded in errors
C1_ErrorsKeptApart ==
    pc # "fetch" =>
        /\ \A i \in 1..Len(all_results) :
              IsMatchRecord(all_results[i]) /\ ~IsErrorRecord(all_results[i])
        /\ \A k \in 1..Len(log) :
              log[k].outcome = "fetch_error" =>
                  \E j \in 1..Len(errors) :
                      /\ errors[j].org = cfg.orgs[log[k].org].name
                      /\ errors[j].url = cfg.orgs[log[k].org].url

\* C2: a failure scoped to one organization never aborts the run: every
\* organization is scanned, in order, and the notification step does not end
\* in an exception raised on the failed organization's record
C2_RunSurvivesOrgFailure ==
    /\ pc # "KeyError"
    /\ pc # "fetch" =>
          /\ Len(log) = Len(cfg.orgs)
          /\ \A k \in 1..Len(log) : log[k].org = k

\* C6: a response with a 5xx status is a fetch failure: its body is never
\* parsed and scan_org returns the organization's error record, no match record
C6_ServerErrorIsFetchFailure ==
    \A k \in 1..Len(log) :
        (Truthy(log[k].status) /\ log[k].status[1] >= 500) =>
            /\ log[k].parses = 0
            /\ \A j \in 1..Len(log[k].ret) : IsErrorRecord(log[k].ret[j])

\* C7: fetch is attempted at most 3 times per organization; when every attempt
\* raises, scan_org returns one error record with the organization's name, URL
\* and the failure, without parsing; the page is parsed at most once per scan
C7_RetryBounded ==
    /\ attempt < 3
    /\ \A k \in 1..Len(log) :
          /\ log[k].attempts \in 1..3
          /\ log[k].parses \in {0, 1}
          /\ log[k].outcome = "fetch_error" =>
                /\ log[k].attempts = 3
                /\ log[k].parses = 0
                /\ Len(log[k].ret) = 1
                /\ IsErrorRecord(log[k].ret[1])
                /\ log[k].ret[1].org = cfg.orgs[log[k].org].name
                /\ log[k].ret[1].url = cfg.orgs[log[k].org].url
                /\ log[k].ret[1].error = "RetryError"
          /\ log[k].outcome # "fetch_error" => log[k].parses = 1

C7_Witness ==
    \E k \in 1..Len(log) :
        /\ log[k].outcome = "fetch_error" /\ log[k].attempts = 3
        /\ \E l \in 1..Len(log) : log[l].outcome = "ok" /\ log[l].attempts = 2

\* C9: every organization of one run is classified against the cutoff of the
\* run's start
C9_OneReferenceInstant ==
    \A k \in 1..Len(log) :
        Truthy(log[k].utcnow) =>
            /\ log[k].utcnow[1] - cfg.recency_days * Day
                   = StartInstant - cfg.recency_days * Day
            /\ \A l \in 1..Len(log) :
                  Truthy(log[l].utcnow) => log[l].utcnow[1] = log[k].utcnow[1]

----------------------------------------------------------------------------
(* Properties of scan_org's body *)

ScanCandidates == Candidates(sin.soup, sin.org.url).value
ScanCutoff == sin.utcnow - sin.recency_days * Day

\* the positions of the returned records that carry candidate c's fields
RecordsOf(c) ==
    {j \in 1..Len(sout.value) :
        /\ sout.value[j].title = c.title
        /\ sout.value[j].url = c.url
        /\ sout.value[j].posted = c.posted}

TitleSpaceSnippet(c) == Lower(c.title \o <<" ">> \o c.snippet)
TitleSnippet(c) == Lower(c.title \o c.snippet)

KeywordIn(text) ==
    \E n \in 1..Len(sin.keywords) : IsSubstr(Lower(sin.keywords[n]), text)

\* C3: a keyword-relevant candidate whose posted date is present and parses is
\* included iff posted_at >= cutoff, whatever allow_undated is, and with the
\* note "posted <date>"
C3_DatedByCutoffOnly ==
    (sout.done /\ ~sout.raised) =>
        \A i \in 1..Len(ScanCandidates) :
            LET c == ScanCandidates[i]
            IN (KeywordIn(TitleSpaceSnippet(c)) /\ Truthy(c.posted)) =>
                  IF c.posted[1].iso >= ScanCutoff
                  THEN /\ RecordsOf(c) # {}
                       /\ \A j \in RecordsOf(c) :
                             sout.value[j].recency_note
                                 = <<"posted ", c.posted[1].iso \div Day>>
                  ELSE RecordsOf(c) = {}

\* the try block of lines 218-223 ends in its except branch
ClassificationFails(c) == Truthy(c.posted) /\ CompareRaises(DateParse(c.posted[1]))

RelevanceIs(spaced) ==
    LET text(c) == IF spaced THEN TitleSpaceSnippet(c) ELSE TitleSnippet(c)
    IN
    (sout.done /\ ~sout.raised) =>
        /\ \A i \in 1..Len(ScanCandidates) :
              LET c == ScanCandidates[i]
              IN /\ ~KeywordIn(text(c)) => RecordsOf(c) = {}
                 /\ (KeywordIn(text(c)) /\ ~Truthy(c.posted) /\ sin.allow_undated)
                        => RecordsOf(c) # {}
                 /\ (KeywordIn(text(c)) /\ Truthy(c.posted)
                        /\ ~c.posted[1].offset /\ c.posted[1].iso >= ScanCutoff)
                        => RecordsOf(c) # {}
        /\ \A j \in 1..Len(sout.value) :
              \E i \in 1..Len(ScanCandidates) :
                  j \in RecordsOf(ScanCandidates[i]) /\ KeywordIn(text(ScanCandidates[i]))

\* C5 as stated: a candidate is relevant iff a keyword is a case-insensitive
\* substring of the concatenation of its title and snippet
C5_PlainConcatenation == RelevanceIs(FALSE)

\* C5 as amended: a candidate is relevant iff a keyword is a case-insensitive
\* substring of its title, one space and its snippet joined in that order;
\* only relevant candidates are returned, whatever the date and allow_undated
C5_SpaceJoined == RelevanceIs(TRUE)

C5_Witness ==
    /\ sout.done /\ ~sout.raised
    /\ \E i \in 1..Len(ScanCandidates) :
          LET c == ScanCandidates[i]
          IN /\ KeywordIn(TitleSpaceSnippet(c)) /\ ~KeywordIn(TitleSnippet(c))
             /\ RecordsOf(c) # {}
    /\ \E i \in 1..Len(ScanCandidates) :
          LET c == ScanCandidates[i]
          IN /\ ~KeywordIn(TitleSpaceSnippet(c)) /\ RecordsOf(c) = {}

Specialized(org) ==
    \/ IsSubstr(<<"w", "o", "r", "k", "d", "a", "y">>, Lower(org.url.host))
    \/ IsSubstr(<<"i", "c", "i", "m", "s">>, Lower(org.url.host))

\* C10 as stated: for an organization whose host selects a specialized adapter,
\* every returned record has no posted date, the undated note and a keyword
\* that is found in its title; with allow_undated false nothing is returned
C10_KeywordInTitle ==
    (sout.done /\ ~sout.raised /\ Specialized(sin.org)) =>
        /\ \A j \in 1..Len(sout.value) :
              /\ sout.value[j].posted = None
              /\ sout.value[j].recency_note = <<"no posted date (included for review)">>
              /\ KeywordIn(Lower(sout.value[j].title))
        /\ ~sin.allow_undated => sout.value = <<>>

\* C10 as amended: for an organization whose host selects a specialized adapter,
\* every returned record has no posted date, the undated note and a keyword
\* that is found in its title followed by the separator space; with
\* allow_undated false nothing is returned
C10_AdapterUndatedOnly ==
    (sout.done /\ ~sout.raised /\ Specialized(sin.org)) =>
        /\ \A j \in 1..Len(sout.value) :
              /\ sout.value[j].posted = None
              /\ sout.value[j].recency_note = <<"no posted date (included for review)">>
              /\ KeywordIn(Lower(sout.value[j].title \o <<" ">>))
        /\ ~sin.allow_undated => sout.value = <<>>

C10_Witness ==
    /\ sout.done /\ ~sout.raised /\ Specialized(sin.org)
    /\ ~sin.allow_undated
    /\ \E i \in 1..Len(ScanCandidates) : KeywordIn(Lower(ScanCandidates[i].title))
    /\ sout.value = <<>>

----------------------------------------------------------------------------
(* Properties of extract_job_cards_generic *)

Key200(c) == SubSeq(c.ser, 1, IF Len(c.ser) < 200 THEN Len(c.ser) ELSE 200)

\* the elements of s at the positions in I, in order
PickAt(s, I) ==
    LET F[i \in 0..Len(s)] ==
            IF i = 0 THEN <<>>
            ELSE IF i \in I THEN Append(F[i - 1], s[i]) ELSE F[i - 1]
    IN F[Len(s)]

====
